---- MODULE Spec2Model ----
(***************************************************************************)
(* nonascii_filter (src/src/main.rs): scan_non_ascii, process_single_file  *)
(* and filescan as a state machine.                                        *)
(*                                                                         *)
(* Bytes are integers 0..255.  A file is a sequence of bytes.              *)
(***************************************************************************)
EXTENDS Integers, Sequences, FiniteSets, TLC

\* ------------------------------------------------------------------ bounds

\* Longest enumerated file content (SpecFile).
MaxLen == 4

\* ------------------------------------------------------------- byte values

NL == 10

\* Bytes the enumerated contents are built from: '\n', ' ', '*', '-', '/',
\* 'a', 0x7f (the largest ASCII byte) and 0x80 (the smallest non-ASCII byte).
Alphabet == {10, 32, 42, 45, 47, 97, 127, 128}

\* b"caf\xc3\xa9\n"
Scenario1 == <<99, 97, 102, 195, 169, 10>>

\* b"// ----\nfn f() {}\n"
Scenario2 == <<47, 47, 32, 45, 45, 45, 45, 10,
               102, 110, 32, 102, 40, 41, 32, 123, 125, 10>>

\* b"\xff\xfe\n"
Scenario4 == <<255, 254, 10>>

\* b"===\xc3" and b"x\n//\t--\xe2\x80\x94" : separator lines carrying non-ASCII bytes
Scenario5 == <<61, 61, 61, 195>>
Scenario6 == <<120, 10, 47, 47, 9, 45, 45, 226, 128, 148>>

BoundedBytes == UNION {[1..n -> Alphabet] : n \in 0..MaxLen}

\* The file contents the single-file specification starts from.
Inputs == BoundedBytes \cup {Scenario1, Scenario2, Scenario4, Scenario5, Scenario6}

\* ---------------------------------------------------------- scan_non_ascii

\* u8::is_ascii
is_ascii_le(b) == b <= 128
is_ascii(b) == b < 128

\* The locals of scan_non_ascii before the loop.
scan_init ==
  [filtered |-> <<>>, non_ascii_positions |-> <<>>, non_ascii_bytes |-> <<>>,
   line |-> 1, col |-> 1]

\* Mutants of the loop body: the column is not reset on '\n'; the line
\* counter is not advanced on '\n'; the non-ASCII byte is recorded and
\* pushed to filtered as well (the else is lost).
scan_byte_no_reset(st, b) ==
  LET line1 == IF b = NL THEN st.line + 1 ELSE st.line
      col1  == st.col
  IN  [filtered |-> IF is_ascii(b) THEN Append(st.filtered, b) ELSE st.filtered,
       non_ascii_positions |->
         IF is_ascii(b) THEN st.non_ascii_positions
         ELSE Append(st.non_ascii_positions, <<line1, col1>>),
       non_ascii_bytes |->
         IF is_ascii(b) THEN st.non_ascii_bytes ELSE Append(st.non_ascii_bytes, b),
       line |-> line1,
       col  |-> IF b # NL THEN col1 + 1 ELSE col1]

scan_byte_no_line(st, b) ==
  LET line1 == st.line
      col1  == IF b = NL THEN 1 ELSE st.col
  IN  [filtered |-> IF is_ascii(b) THEN Append(st.filtered, b) ELSE st.filtered,
       non_ascii_positions |->
         IF is_ascii(b) THEN st.non_ascii_positions
         ELSE Append(st.non_ascii_positions, <<line1, col1>>),
       non_ascii_bytes |->
         IF is_ascii(b) THEN st.non_ascii_bytes ELSE Append(st.non_ascii_bytes, b),
       line |-> line1,
       col  |-> IF b # NL THEN col1 + 1 ELSE col1]

scan_byte_no_else(st, b) ==
  LET line1 == IF b = NL THEN st.line + 1 ELSE st.line
      col1  == IF b = NL THEN 1 ELSE st.col
  IN  [filtered |-> Append(st.filtered, b),
       non_ascii_positions |->
         IF is_ascii(b) THEN st.non_ascii_positions
         ELSE Append(st.non_ascii_positions, <<line1, col1>>),
       non_ascii_bytes |->
         IF is_ascii(b) THEN st.non_ascii_bytes ELSE Append(st.non_ascii_bytes, b),
       line |-> line1,
       col  |-> IF b # NL THEN col1 + 1 ELSE col1]

\* One iteration of `for &b in data`: the line/column update on '\n', the
\* push to filtered or to the two non-ASCII lists, the column increment.
scan_byte(st, b) ==
  LET line1 == IF b = NL THEN st.line + 1 ELSE st.line
      col1  == IF b = NL THEN 1 ELSE st.col
  IN  [filtered |-> IF is_ascii(b) THEN Append(st.filtered, b) ELSE st.filtered,
       non_ascii_positions |->
         IF is_ascii(b) THEN st.non_ascii_positions
         ELSE Append(st.non_ascii_positions, <<line1, col1>>),
       non_ascii_bytes |->
         IF is_ascii(b) THEN st.non_ascii_bytes ELSE Append(st.non_ascii_bytes, b),
       line |-> line1,
       col  |-> IF b # NL THEN col1 + 1 ELSE col1]

\* The loop over data[i..].
RECURSIVE scan_from(_, _, _)
scan_from(st, data, i) ==
  IF i > Len(data) THEN st ELSE scan_from(scan_byte(st, data[i]), data, i + 1)

\* Mutant: a '\n' is pushed after the loop when the output does not end with one.
scan_non_ascii_terminated(data) ==
  LET st == scan_from(scan_init, data, 1)
      f  == st.filtered
  IN  [filtered |-> IF Len(data) > 0 /\ (Len(f) = 0 \/ f[Len(f)] # NL)
                    THEN Append(f, NL) ELSE f,
       non_ascii_positions |-> st.non_ascii_positions,
       non_ascii_bytes |-> st.non_ascii_bytes]

\* scan_non_ascii(data) -> NonAsciiScan
scan_non_ascii(data) ==
  LET st == scan_from(scan_init, data, 1)
  IN  [filtered |-> st.filtered,
       non_ascii_positions |-> st.non_ascii_positions,
       non_ascii_bytes |-> st.non_ascii_bytes]

\* The value of `result` before scan_non_ascii has returned.
NoScan == [filtered |-> <<>>, non_ascii_positions |-> <<>>, non_ascii_bytes |-> <<>>]


\* ------------------------------------------------------------------- state

VARIABLES
  path_kind,    \* what filescan's argument names: "missing", "file" or "dir"
  pcd,          \* filescan's position
  pc,           \* process_single_file's position ("idle": not in a call)
  disk,         \* the on-disk content of the file being processed
  disk0,        \* that content when process_single_file was entered
  readable,     \* whether read(file_path) returns Ok
  data,         \* process_single_file's local `data`
  result,       \* process_single_file's local `result`
  report,       \* the lines the current call has printed, in order
  write_calls,  \* the contents the current call handed to write()
  tree,         \* the entries WalkDir yields
  it,           \* how many entries the walk has consumed
  entry_count,  \* filescan's local `entry_count`
  seen_paths,   \* filescan's local `seen_paths`
  file_paths,   \* filescan's local `file_paths`
  index,        \* how many calls of the processing loop have returned
  processed     \* the paths process_single_file has returned for, in order

fvars == <<disk, disk0, readable, data, result, report, write_calls, pc>>
dvars == <<tree, it, entry_count, seen_paths, file_paths, index, processed>>
vars  == <<path_kind, pcd, fvars, dvars>>

\* The printed lines the model distinguishes.
MsgMissing    == "does not exist"
MsgReadError  == "Error reading file"
MsgFound      == "Containment found"
MsgClean      == "Clean. No non-ASCII characters detected."
MsgWriteError == "Error writing filtered data to file"
MsgSaved      == "File cleaned and saved."

\* ----------------------------------------------------- process_single_file

\* `if result.filtered != data`, and the mutant with == for !=.
write_required_eq(filtered, original) == filtered = original
write_required(filtered, original) == filtered # original

\* std::fs::write(path, contents) returning Err: File::create failed and the
\* file is untouched, or the file was truncated and write_all stopped after
\* any proper prefix of contents.
failed_write_outcomes(old, contents) ==
  {old} \cup {SubSeq(contents, 1, k) : k \in 0..(Len(contents) - 1)}

\* let data = read(file_path);  Ok(data)
ReadOk ==
  /\ pc = "read"
  /\ readable
  /\ data' = disk
  /\ pc' = "scan"
  /\ UNCHANGED <<path_kind, pcd, disk, disk0, readable, result, report, write_calls, dvars>>

\* Where control goes from the Err(e) arm of `match data`: the function
\* returns to its caller.  The mutant leaves the process instead.
after_read_error_exit == "exit"
after_read_error == "ret"

\* let data = read(file_path);  Err(e): the error is printed, the call returns
ReadErr ==
  /\ pc = "read"
  /\ ~readable
  /\ report' = Append(report, MsgReadError)
  /\ pc' = after_read_error
  /\ UNCHANGED <<path_kind, pcd, disk, disk0, readable, data, result, write_calls, dvars>>

\* let result = scan_non_ascii(&data);
Scan ==
  /\ pc = "scan"
  /\ result' = scan_non_ascii(data)
  /\ pc' = "report"
  /\ UNCHANGED <<path_kind, pcd, disk, disk0, readable, data, report, write_calls, dvars>>

\* non_ascii_positions is not empty: the findings are printed
ReportFound ==
  /\ pc = "report"
  /\ result.non_ascii_positions # <<>>
  /\ report' = Append(report, MsgFound)
  /\ pc' = IF write_required(result.filtered, data) THEN "write" ELSE "ret"
  /\ UNCHANGED <<path_kind, pcd, disk, disk0, readable, data, result, write_calls, dvars>>

\* non_ascii_positions is empty
ReportClean ==
  /\ pc = "report"
  /\ result.non_ascii_positions = <<>>
  /\ report' = Append(report, MsgClean)
  /\ pc' = "ret"
  /\ UNCHANGED <<path_kind, pcd, disk, disk0, readable, data, result, write_calls, dvars>>

\* write(file_path, &result.filtered) returns Ok; "File cleaned and saved."
WriteOk ==
  /\ pc = "write"
  /\ disk' = result.filtered
  /\ write_calls' = Append(write_calls, result.filtered)
  /\ report' = Append(report, MsgSaved)
  /\ pc' = "ret"
  /\ UNCHANGED <<path_kind, pcd, disk0, readable, data, result, dvars>>

\* write(file_path, &result.filtered) returns Err: unwrap_or_else prints the
\* error, and the println! after it runs all the same
WriteErr ==
  /\ pc = "write"
  /\ \E d \in failed_write_outcomes(disk, result.filtered) : disk' = d
  /\ write_calls' = Append(write_calls, result.filtered)
  /\ report' = report \o <<MsgWriteError, MsgSaved>>
  /\ pc' = "ret"
  /\ UNCHANGED <<path_kind, pcd, disk0, readable, data, result, dvars>>

ProcessSingleFile ==
  ReadOk \/ ReadErr \/ Scan \/ ReportFound \/ ReportClean \/ WriteOk \/ WriteErr

\* ---------------------------------------------------- filescan: single file

NoTree == [n |-> 0, pat |-> <<>>]

\* if !path.exists()
PathMissing ==
  /\ pcd = "start"
  /\ path_kind = "missing"
  /\ report' = Append(report, MsgMissing)
  /\ pcd' = "done"
  /\ UNCHANGED <<path_kind, disk, disk0, readable, data, result, write_calls, pc, dvars>>

\* if path.is_file() { process_single_file(path);
PathIsFile ==
  /\ pcd = "start"
  /\ path_kind = "file"
  /\ pc' = "read"
  /\ pcd' = "single"
  /\ UNCHANGED <<path_kind, disk, disk0, readable, data, result, report, write_calls, dvars>>

\* return; }
SingleReturn ==
  /\ pcd = "single"
  /\ pc = "ret"
  /\ pc' = "idle"
  /\ pcd' = "done"
  /\ UNCHANGED <<path_kind, disk, disk0, readable, data, result, report, write_calls, dvars>>

InitFile ==
  /\ path_kind \in {"missing", "file"}
  /\ pcd = "start"
  /\ pc = "idle"
  /\ IF path_kind = "file"
       THEN disk \in Inputs /\ readable \in BOOLEAN
       ELSE disk = <<>> /\ readable = FALSE
  /\ disk0 = disk
  /\ data = <<>>
  /\ result = NoScan
  /\ report = <<>>
  /\ write_calls = <<>>
  /\ tree = NoTree
  /\ it = 0
  /\ entry_count = 0
  /\ seen_paths = {}
  /\ file_paths = <<>>
  /\ index = 0
  /\ processed = <<>>

NextFile == PathMissing \/ PathIsFile \/ ProcessSingleFile \/ SingleReturn

\* filescan on a path that is missing or a single file.
SpecFile == InitFile /\ [][NextFile]_vars


\* ------------------------------------------------- filescan: a directory

\* Longest explicitly enumerated directory tree.
MaxTree == 2

\* How far beyond the entry limit the long trees reach.
MaxOver == 1

\* if entry_count > 1000
EntryLimit == 1000

\* The extensions the trees use: none (path.extension() is None), one that
\* is scanned, and denylisted ones in lower and in upper case.
Exts == {"", "rs", "png", "PNG", "gz"}

\* extension.to_string_lossy().to_lowercase(), on Exts.
to_lowercase(e) == IF e = "PNG" THEN "png" ELSE e

\* The extensions of the four skip arms of `match ext.as_str()`.
Denylist ==
  {"exe", "dll", "so", "dylib", "bin", "obj", "o", "a", "lib",
   "jpg", "jpeg", "png", "gif", "bmp", "ico", "svg",
   "mp4", "avi", "mkv", "mp3", "wav", "flac",
   "zip", "rar", "7z", "tar", "gz"}

\* if let Some(extension) = path.extension() { match lowercased ... continue }
is_denied(e) == e # "" /\ to_lowercase(e) \in Denylist

\* Mutant: >= for >.
too_many_entries_ge(c) == c >= EntryLimit

\* if entry_count > 1000 { break }
too_many_entries(c) == c > EntryLimit

\* What WalkDir yields for one entry: Err, or Ok with a path that is a
\* regular file (with its extension), a directory, or neither.
EntryKinds ==
  {[kind |-> "err", ext |-> ""], [kind |-> "dir", ext |-> ""],
   [kind |-> "other", ext |-> ""]}
  \cup {[kind |-> "file", ext |-> e] : e \in Exts}

\* A tree is the sequence WalkDir yields: n entries, entry i being
\* pat[((i - 1) % Len(pat)) + 1]; the path of entry i is i (WalkDir with
\* follow_links(false) yields every path once, so `seen_paths.contains`
\* is false for every entry).  The short trees are all sequences of up to
\* MaxTree entries; the long ones reach the entry limit and beyond.
SmallTrees ==
  {[n |-> 0, pat |-> <<>>]}
  \cup {[n |-> Len(p), pat |-> p] : p \in UNION {[1..m -> EntryKinds] : m \in 1..MaxTree}}
LongPatterns ==
  {<<[kind |-> "file", ext |-> "rs"]>>,
   <<[kind |-> "err", ext |-> ""], [kind |-> "file", ext |-> ""],
     [kind |-> "dir", ext |-> ""], [kind |-> "file", ext |-> "PNG"]>>}
LongTrees ==
  {[n |-> EntryLimit + d, pat |-> p] : d \in 0..MaxOver, p \in LongPatterns}
Trees == SmallTrees \cup LongTrees

Entry(t, i) == t.pat[((i - 1) % Len(t.pat)) + 1]

\* The contents a file of the tree may hold: clean, and with one byte to remove.
DirContents == {<<97, 10>>, <<128, 97>>}

\* path is a directory: the collections are created, the walk starts
PathIsDir ==
  /\ pcd = "start"
  /\ path_kind = "dir"
  /\ pcd' = "walk"
  /\ UNCHANGED <<path_kind, fvars, dvars>>

\* One more entry is yielded, and entry_count exceeds the limit: break
WalkTooMany ==
  /\ pcd = "walk"
  /\ it < tree.n
  /\ too_many_entries(entry_count + 1)
  /\ entry_count' = entry_count + 1
  /\ pcd' = "process"
  /\ UNCHANGED <<path_kind, fvars, tree, it, seen_paths, file_paths, index, processed>>

\* Err(e): printed, continue
WalkErr ==
  /\ pcd = "walk"
  /\ it < tree.n
  /\ ~too_many_entries(entry_count + 1)
  /\ Entry(tree, it + 1).kind = "err"
  /\ entry_count' = entry_count + 1
  /\ it' = it + 1
  /\ UNCHANGED <<path_kind, pcd, fvars, tree, seen_paths, file_paths, index, processed>>

\* Ok(dir_entry), path.is_file() is false
WalkNotFile ==
  /\ pcd = "walk"
  /\ it < tree.n
  /\ ~too_many_entries(entry_count + 1)
  /\ Entry(tree, it + 1).kind \in {"dir", "other"}
  /\ (it + 1) \notin seen_paths
  /\ entry_count' = entry_count + 1
  /\ it' = it + 1
  /\ seen_paths' = seen_paths \cup {it + 1}
  /\ UNCHANGED <<path_kind, pcd, fvars, tree, file_paths, index, processed>>

\* Ok(dir_entry), a file whose extension is on the denylist: continue
WalkSkipped ==
  /\ pcd = "walk"
  /\ it < tree.n
  /\ ~too_many_entries(entry_count + 1)
  /\ Entry(tree, it + 1).kind = "file"
  /\ (it + 1) \notin seen_paths
  /\ is_denied(Entry(tree, it + 1).ext)
  /\ entry_count' = entry_count + 1
  /\ it' = it + 1
  /\ seen_paths' = seen_paths \cup {it + 1}
  /\ UNCHANGED <<path_kind, pcd, fvars, tree, file_paths, index, processed>>

\* Ok(dir_entry), a file to scan: file_paths.push(path)
WalkFound ==
  /\ pcd = "walk"
  /\ it < tree.n
  /\ ~too_many_entries(entry_count + 1)
  /\ Entry(tree, it + 1).kind = "file"
  /\ (it + 1) \notin seen_paths
  /\ ~is_denied(Entry(tree, it + 1).ext)
  /\ entry_count' = entry_count + 1
  /\ it' = it + 1
  /\ seen_paths' = seen_paths \cup {it + 1}
  /\ file_paths' = Append(file_paths, it + 1)
  /\ UNCHANGED <<path_kind, pcd, fvars, tree, index, processed>>

\* The iterator is exhausted
WalkEnd ==
  /\ pcd = "walk"
  /\ it = tree.n
  /\ pcd' = "process"
  /\ UNCHANGED <<path_kind, fvars, dvars>>

\* for (index, file_path) in file_paths.iter().enumerate():
\* process_single_file(file_path) is entered; the file holds some content
\* and is readable or not
ProcCall ==
  /\ pcd = "process"
  /\ pc = "idle"
  /\ index < Len(file_paths)
  /\ disk' \in DirContents
  /\ disk0' = disk'
  /\ readable' \in BOOLEAN
  /\ data' = <<>>
  /\ result' = NoScan
  /\ report' = <<>>
  /\ write_calls' = <<>>
  /\ pc' = "read"
  /\ UNCHANGED <<path_kind, pcd, dvars>>

\* process_single_file returns to the loop
ProcReturn ==
  /\ pcd = "process"
  /\ pc = "ret"
  /\ processed' = Append(processed, file_paths[index + 1])
  /\ index' = index + 1
  /\ pc' = "idle"
  /\ UNCHANGED <<path_kind, pcd, disk, disk0, readable, data, result, report, write_calls,
                 tree, it, entry_count, seen_paths, file_paths>>

\* The loop over file_paths ends
ProcEnd ==
  /\ pcd = "process"
  /\ pc = "idle"
  /\ index = Len(file_paths)
  /\ pcd' = "done"
  /\ UNCHANGED <<path_kind, fvars, dvars>>

InitDir ==
  /\ path_kind = "dir"
  /\ pcd = "start"
  /\ pc = "idle"
  /\ disk = <<>>
  /\ disk0 = <<>>
  /\ readable = FALSE
  /\ data = <<>>
  /\ result = NoScan
  /\ report = <<>>
  /\ write_calls = <<>>
  /\ tree \in Trees
  /\ it = 0
  /\ entry_count = 0
  /\ seen_paths = {}
  /\ file_paths = <<>>
  /\ index = 0
  /\ processed = <<>>

Walk == WalkTooMany \/ WalkErr \/ WalkNotFile \/ WalkSkipped \/ WalkFound \/ WalkEnd

NextDir == PathIsDir \/ Walk \/ ProcCall \/ ProcessSingleFile \/ ProcReturn \/ ProcEnd

\* filescan on a directory.
SpecDir == InitDir /\ [][NextDir]_vars

\* The loops of filescan and the body of process_single_file run to their
\* end: nothing in them waits.
FairSpecDir == SpecDir /\ WF_vars(NextDir)

\* ---------------------------------------------- vocabulary of the properties

Range(s) == {s[i] : i \in 1..Len(s)}

\* scan_non_ascii has returned in the current call of process_single_file.
Scanned == readable /\ pcd # "start" /\ pc \notin {"read", "scan"}

Ascii7(b) == b <= 127

\* The indices of the non-ASCII bytes of d, and the rank of one among them.
NonAsciiIdx(d) == {k \in 1..Len(d) : d[k] >= 128}
Rank(d, k) == Cardinality({j \in NonAsciiIdx(d) : j <= k})

\* 1-indexed line and column of index k of d, counted on the input itself.
LineNo(d, k) == 1 + Cardinality({j \in 1..(k - 1) : d[j] = NL})
LastNL(d, k) ==
  LET nls == {j \in 1..(k - 1) : d[j] = NL}
  IN  IF nls = {} THEN 0 ELSE CHOOSE j \in nls : \A m \in nls : m <= j
ColNo(d, k) == k - LastNL(d, k)

\* The lines of d, split on '\n', terminators excluded.
NumLines(d) == 1 + Cardinality({j \in 1..Len(d) : d[j] = NL})
LineIdx(d, n) == {i \in 1..Len(d) : d[i] # NL /\ LineNo(d, i) = n}
Line(d, n) ==
  LET ix == LineIdx(d, n)
  IN  IF ix = {} THEN <<>>
      ELSE SubSeq(d, CHOOSE i \in ix : \A m \in ix : i <= m,
                     CHOOSE i \in ix : \A m \in ix : m <= i)

\* The watermark patterns of the specification's Pattern Matcher, on bytes:
\* \*{3,}  ={3,}  /{3,}  //\s*--+
IsSpace(b) == b \in {9, 11, 12, 13, 32}
HasRun(l, c, n) ==
  \E i \in 1..(Len(l) - n + 1) : \A j \in 0..(n - 1) : l[i + j] = c
DashComment(l) ==
  \E i \in 1..Len(l) : \E j \in (i + 2)..(Len(l) - 1) :
    /\ l[i] = 47 /\ l[i + 1] = 47
    /\ \A k \in (i + 2)..(j - 1) : IsSpace(l[k])
    /\ l[j] = 45 /\ l[j + 1] = 45
Matches(l) == HasRun(l, 42, 3) \/ HasRun(l, 61, 3) \/ HasRun(l, 47, 3) \/ DashComment(l)

\* ------------------------------------------------------------------ claims

\* C1: every byte of scan(b).filtered is ASCII (value <= 127), whatever bytes
\* precede or follow the non-ASCII bytes of the input.
C1_AsciiPurity ==
  Scanned => \A i \in 1..Len(result.filtered) : result.filtered[i] <= 127

\* A scanned input with a non-ASCII byte between two ASCII bytes.
C1_Witness ==
  /\ Scanned
  /\ \E k \in 2..(Len(data) - 1) :
       data[k] >= 128 /\ data[k - 1] <= 127 /\ data[k + 1] <= 127
  /\ Len(result.filtered) >= 2

\* C2: non_ascii_positions has one entry per non-ASCII byte of the input, in
\* encounter order, as many as non_ascii_bytes; the i-th entry is the
\* 1-indexed (line, column) of the i-th non-ASCII byte: line = 1 + the '\n'
\* bytes before it, column = 1 + the bytes since the last '\n'.
C2_Positions ==
  Scanned =>
    /\ Len(result.non_ascii_positions) = Cardinality(NonAsciiIdx(data))
    /\ Len(result.non_ascii_bytes) = Len(result.non_ascii_positions)
    /\ \A k \in NonAsciiIdx(data) :
         /\ result.non_ascii_positions[Rank(data, k)] = <<LineNo(data, k), ColNo(data, k)>>
         /\ result.non_ascii_bytes[Rank(data, k)] = data[k]

\* b"caf\xc3\xa9\n" has been scanned and gave [(1,4),(1,5)].
C2_Witness ==
  /\ Scanned
  /\ data = Scenario1
  /\ result.non_ascii_positions = << <<1, 4>>, <<1, 5>> >>
  /\ result.filtered = <<99, 97, 102, 10>>

C4_WatermarkDropped ==
  Scanned =>
    /\ \A n \in 1..NumLines(data) :
         Matches(Line(data, n)) =>
           /\ Line(result.filtered, n) = <<>>
           /\ \A i \in 1..Len(result.non_ascii_positions) :
                result.non_ascii_positions[i][1] # n
    /\ \A n \in 1..NumLines(result.filtered) : ~Matches(Line(result.filtered, n))

\* C4 amended: the scan detects no watermark: a line matching a pattern keeps
\* all its ASCII bytes in filtered, and each of its non-ASCII bytes
\* contributes one non_ascii_positions entry on that line.
C4_WatermarkKept ==
  Scanned =>
    \A n \in 1..NumLines(data) :
      Matches(Line(data, n)) =>
        /\ Line(result.filtered, n) = SelectSeq(Line(data, n), Ascii7)
        /\ Cardinality({i \in 1..Len(result.non_ascii_positions) :
                          result.non_ascii_positions[i][1] = n})
             = Cardinality(NonAsciiIdx(Line(data, n)))

\* A scanned input whose second line matches a pattern and holds non-ASCII bytes.
C4_Witness ==
  /\ Scanned
  /\ NumLines(data) >= 2
  /\ Matches(Line(data, 2))
  /\ NonAsciiIdx(Line(data, 2)) # {}
  /\ Matches(Line(result.filtered, 2))

\* C5 as stated: for a non-empty input whose last byte is not '\n', filtered
\* ends with '\n'.
C5_TerminatorAppended ==
  (Scanned /\ data # <<>> /\ data[Len(data)] # NL) =>
    (result.filtered # <<>> /\ result.filtered[Len(result.filtered)] = NL)

\* C5 amended: for a non-empty input whose last byte is not '\n', no
\* terminator is appended: filtered is exactly the ASCII bytes of the input,
\* in order, so it ends with the input's last ASCII byte.
C5_NoTerminatorAppended ==
  (Scanned /\ data # <<>> /\ data[Len(data)] # NL) =>
    result.filtered = SelectSeq(data, Ascii7)

\* An input ending in 'a' has been scanned, and filtered ends in 'a'.
C5_Witness ==
  /\ Scanned
  /\ data # <<>>
  /\ data[Len(data)] = 97
  /\ result.filtered # <<>>
  /\ result.filtered[Len(result.filtered)] = 97

\* C6: process_single_file issues a write iff the filtered bytes differ from
\* the original bytes; when they are equal, or the read failed, no write is
\* issued and the on-disk content is unchanged.
C6_WriteIffDiffers ==
  /\ write_calls # <<>> => (readable /\ result.filtered # data /\ data = disk0)
  /\ pc = "ret" =>
       /\ readable => ((write_calls = <<result.filtered>>) <=> (result.filtered # data))
       /\ write_calls = <<>> => disk = disk0
       /\ Len(write_calls) <= 1

\* A call that returned after writing filtered bytes that differ from the original.
C6_Witness ==
  /\ pc = "ret"
  /\ readable
  /\ result.filtered # data
  /\ write_calls = <<result.filtered>>
  /\ disk = result.filtered

\* C7: when the write of the filtered content fails, the file on disk still
\* holds exactly the original content.
C7_FailedWriteKeepsOriginal ==
  MsgWriteError \in Range(report) => disk = disk0

\* C10: "File cleaned and saved." is reported only when the write of the
\* filtered bytes succeeded.
C10_SavedOnlyOnSuccess ==
  MsgSaved \in Range(report) =>
    (MsgWriteError \notin Range(report) /\ disk = result.filtered)


\* The walk of the directory is over.
Walked == pcd \in {"process", "done"}

\* The entries of tree t, among the first n, that are regular files with an
\* extension that is not denylisted (of Exts: png, PNG and gz are).
Scannable(t, n) ==
  {i \in 1..n : Entry(t, i).kind = "file" /\ Entry(t, i).ext \notin {"png", "PNG", "gz"}}

StrictlyIncreasing(s) == \A j \in 1..(Len(s) - 1) : s[j] < s[j + 1]

Min(a, b) == IF a <= b THEN a ELSE b

\* C8 as stated: every regular file of the traversal whose extension is not
\* denylisted is in the file list exactly once, and has been scanned exactly
\* once when the run ends, however many entries the tree has.
C8_AllFilesScanned ==
  /\ (Walked /\ index = 0 /\ pc = "idle") =>
       /\ StrictlyIncreasing(file_paths)
       /\ Range(file_paths) = Scannable(tree, tree.n)
  /\ pcd = "done" =>
       /\ StrictlyIncreasing(processed)
       /\ Range(processed) = Scannable(tree, tree.n)

\* C8 amended: the same for the files among the first 1000 entries the
\* traversal yields; the walk stops at entry 1001, and later files are
\* neither listed nor scanned.
C8_FilesWithinLimitScanned ==
  /\ (Walked /\ index = 0 /\ pc = "idle") =>
       /\ StrictlyIncreasing(file_paths)
       /\ Range(file_paths) = Scannable(tree, Min(tree.n, 1000))
  /\ pcd = "done" =>
       /\ StrictlyIncreasing(processed)
       /\ Range(processed) = Scannable(tree, Min(tree.n, 1000))

\* A run over a tree of more than 1000 entries, all files to scan, has
\* ended with 1000 files scanned.
C8_Witness ==
  /\ pcd = "done"
  /\ tree.n > 1000
  /\ Len(processed) = 1000
  /\ Scannable(tree, tree.n) # Scannable(tree, 1000)

IsPrefix(s, t) == Len(s) <= Len(t) /\ \A j \in 1..Len(s) : s[j] = t[j]

\* C9: once the walk is over, every file of the list is eventually
\* processed, one at a time and in list order, whatever the reads and writes
\* of earlier files did; and a traversal error on an entry skips that entry
\* only: the walk goes on to the next entry with its lists unchanged.
C9_FailureNeverHalts ==
  /\ [](Walked => <>(pcd = "done" /\ processed = file_paths))
  /\ [](IsPrefix(processed, file_paths) /\ Len(processed) = index)
  /\ [][(pcd = "walk" /\ it < tree.n /\ entry_count < 1000
           /\ Entry(tree, it + 1).kind = "err")
          => (pcd' = "walk" /\ it' = it + 1 /\ file_paths' = file_paths)]_vars

\* A call whose read failed has returned to the loop, which has files left.
C9_Witness ==
  /\ pcd = "process"
  /\ pc = "idle"
  /\ MsgReadError \in Range(report)
  /\ 1 <= index
  /\ index < Len(file_paths)

====
